---- MODULE Spec2Model ----
(***************************************************************************)
(* A model of the Collatz Mapora engine (mapora_engine.py): the residue    *)
(* class MaporaStack with its transition rule get_next_state, and the      *)
(* budgeted breadth-first traversal get_stability_ratio, and the worklist  *)
(* loop of generate_tree_image (its drawing with networkx layouts and      *)
(* matplotlib is outside the model).                                       *)
(*                                                                         *)
(* Python integers are unbounded; every value the model reaches stays far  *)
(* below 2^31, so no width is modelled.  On non-negative operands Python's *)
(* % and // are TLA+'s % and \div.                                         *)
(***************************************************************************)
EXTENDS Integers, Sequences, FiniteSets, TLC

(* ----------------------------- bounds ---------------------------------- *)
\* Roots and budgets of a single invocation (specification Spec).
MaxMod == 6
MaxRes == 7
MaxBudget == 6
\* Roots and budgets of the concurrent invocations (specification ConcSpec).
ConcMaxMod == 3
ConcMaxRes == 3
ConcMaxBudget == 3
\* Roots of generate_tree_image (specification Spec).
ImgMaxMod == 4
ImgMaxRes == 4
\* Arguments of the transition rule applied on its own (specification RuleSpec).
RuleMaxMod == 9
RuleMaxRes == 9
RuleMaxLayer == 1

(* ------------------------ program constants ---------------------------- *)
\* generate_tree_image(16, 32, ...): the "stable control" class 16 mod 32.
ControlModulus == 32
ControlResidue == 16
\* The node budget the Fibonacci experiment passes to get_stability_ratio.
ControlBudget == 400
\* "if splits == 0: return 50.0"
SentinelValue == 50
\* generate_tree_image(987, 32, ...): the Fibonacci residue of Figure 2.
FibonacciResidue == 987
\* "if curr.layer >= 14: continue"
LayerCeiling == 14

\* The worker tasks that may each run one invocation of get_stability_ratio.
Calls == {"w1", "w2"}
\* The worker of the single-invocation specifications.
Main == "w1"

(* --------------------------- MaporaStack ------------------------------- *)
\* Python's None.
None == [none |-> TRUE]

\* MaporaStack.__init__: a residue class (modulus * k + residue).  The id is
\* a string built by concatenation; it is modelled as the sequence of its
\* symbols, the root symbol first.
MaporaStack(modulus, residue, symbol_id, layer) ==
    [m |-> modulus, r |-> residue, id |-> symbol_id, layer |-> layer]

\* get_next_state with the parity test of the modulus inverted.
get_next_state_modulus_parity(self) ==
    IF self.r % 2 = 0
    THEN IF self.m % 2 = 1
         THEN MaporaStack(self.m \div 2, self.r \div 2,
                          Append(self.id, "D"), self.layer + 1)
         ELSE None
    ELSE MaporaStack(3 * self.m, 3 * self.r + 1,
                     Append(self.id, "M"), self.layer + 1)

\* get_next_state with the "+ 1" of 3n+1 dropped.
get_next_state_no_plus_one(self) ==
    IF self.r % 2 = 0
    THEN IF self.m % 2 = 0
         THEN MaporaStack(self.m \div 2, self.r \div 2,
                          Append(self.id, "D"), self.layer + 1)
         ELSE None
    ELSE MaporaStack(3 * self.m, 3 * self.r,
                     Append(self.id, "M"), self.layer + 1)

\* get_next_state with the layer of a 3n+1 successor not advanced.
get_next_state_same_layer(self) ==
    IF self.r % 2 = 0
    THEN IF self.m % 2 = 0
         THEN MaporaStack(self.m \div 2, self.r \div 2,
                          Append(self.id, "D"), self.layer + 1)
         ELSE None
    ELSE MaporaStack(3 * self.m, 3 * self.r + 1,
                     Append(self.id, "M"), self.layer)

\* get_next_state halving on an even residue whatever the modulus.
get_next_state_halve_any(self) ==
    IF self.r % 2 = 0
    THEN MaporaStack(self.m \div 2, self.r \div 2,
                     Append(self.id, "D"), self.layer + 1)
    ELSE MaporaStack(3 * self.m, 3 * self.r + 1,
                     Append(self.id, "M"), self.layer + 1)

\* get_next_state halving the modulus but not the residue.
get_next_state_residue_kept(self) ==
    IF self.r % 2 = 0
    THEN IF self.m % 2 = 0
         THEN MaporaStack(self.m \div 2, self.r,
                          Append(self.id, "D"), self.layer + 1)
         ELSE None
    ELSE MaporaStack(3 * self.m, 3 * self.r + 1,
                     Append(self.id, "M"), self.layer + 1)

\* get_next_state taking the layer of a successor from the length of the id.
get_next_state_layer_from_label(self) ==
    IF self.r % 2 = 0
    THEN IF self.m % 2 = 0
         THEN MaporaStack(self.m \div 2, self.r \div 2,
                          Append(self.id, "D"), Len(self.id))
         ELSE None
    ELSE MaporaStack(3 * self.m, 3 * self.r + 1,
                     Append(self.id, "M"), Len(self.id))

\* MaporaStack.get_next_state: the successor class, or None when ambiguous.
get_next_state(self) ==
    IF self.r % 2 = 0
    THEN IF self.m % 2 = 0
         THEN MaporaStack(self.m \div 2, self.r \div 2,
                          Append(self.id, "D"), self.layer + 1)
         ELSE None
    ELSE MaporaStack(3 * self.m, 3 * self.r + 1,
                     Append(self.id, "M"), self.layer + 1)

(* ------------------------ collections.deque ---------------------------- *)
\* deque.pop(): the element is taken from the right end.
pop(q) == <<q[Len(q)], SubSeq(q, 1, Len(q) - 1)>>

\* deque.popleft(): <<the element removed, the deque left>>.
popleft(q) == <<Head(q), Tail(q)>>

\* deque.appendleft(x): the element is put at the left end.
appendleft(q, x) == <<x>> \o q

\* deque.append(x).
append(q, x) == Append(q, x)

(* ------------------------------ state ---------------------------------- *)
VARIABLES
    pc,              \* per worker: "idle", "loop" (at the while test), "done"
    args,            \* per worker: the arguments modulus, residue, depth_limit
    queue,           \* per worker: the deque of pending MaporaStack objects
    curr,            \* per worker: the object popped by the latest iteration
    straight_paths,  \* per worker: the merge counter
    splits,          \* per worker: the split counter
    nodes,           \* per worker: the processed-node counter
    ret,             \* per worker: the value returned, as a fraction <<n, d>>
    enqueued,        \* per worker: every object appended so far, in order
    dequeued,        \* per worker: every object popped so far, in order
    img_pc,          \* generate_tree_image: "idle", "loop", "done"
    img_queue,       \* generate_tree_image: its deque
    img_curr,        \* generate_tree_image: the object popped last
    G,               \* generate_tree_image: the DiGraph, nodes and edges
    img_enqueued,    \* generate_tree_image: every object appended so far
    rule_self,       \* the object get_next_state is applied to on its own
    rule_ret         \* what that application returned

vars == <<pc, args, queue, curr, straight_paths, splits, nodes, ret,
          enqueued, dequeued, img_pc, img_queue, img_curr, G, img_enqueued,
          rule_self, rule_ret>>

travVars == <<pc, args, queue, curr, straight_paths, splits, nodes, ret,
              enqueued, dequeued>>

imgVars == <<img_pc, img_queue, img_curr, G, img_enqueued>>

ruleVars == <<rule_self, rule_ret>>

\* The value of a local that is not bound yet.
Unbound == [unbound |-> TRUE]

\* The root label of get_stability_ratio.
RootId == <<"ROOT">>

(* ------------------------ get_stability_ratio -------------------------- *)
\* The locals of one invocation, as one record.
Locals(c) ==
    [queue |-> queue[c], curr |-> curr[c],
     straight_paths |-> straight_paths[c], splits |-> splits[c],
     nodes |-> nodes[c], enqueued |-> enqueued[c], dequeued |-> dequeued[c]]

\* The locals right after lines 55-58.
InitialLocals(modulus, residue) ==
    LET root == MaporaStack(modulus, residue, RootId, 0) IN
    [queue |-> <<root>>, curr |-> Unbound,
     straight_paths |-> 0, splits |-> 0, nodes |-> 0,
     enqueued |-> <<root>>, dequeued |-> <<>>]

\* The children of a split with child B offset by the doubled modulus.
SplitChildrenDoubledOffset(c) ==
    LET new_m == c.m * 2 IN
    << MaporaStack(new_m, c.r, Append(c.id, "A"), c.layer + 1),
       MaporaStack(new_m, c.r + new_m, Append(c.id, "B"), c.layer + 1) >>

\* The children of a split with the modulus not doubled.
SplitChildrenModulusKept(c) ==
    LET new_m == c.m IN
    << MaporaStack(new_m, c.r, Append(c.id, "A"), c.layer + 1),
       MaporaStack(new_m, c.r + c.m, Append(c.id, "B"), c.layer + 1) >>

\* The children of a split with both labelled "A".
SplitChildrenSameLabel(c) ==
    LET new_m == c.m * 2 IN
    << MaporaStack(new_m, c.r, Append(c.id, "A"), c.layer + 1),
       MaporaStack(new_m, c.r + c.m, Append(c.id, "A"), c.layer + 1) >>

\* The two children of a split, in the order they are appended.
SplitChildren(c) ==
    LET new_m == c.m * 2 IN
    << MaporaStack(new_m, c.r, Append(c.id, "A"), c.layer + 1),
       MaporaStack(new_m, c.r + c.m, Append(c.id, "B"), c.layer + 1) >>

\* The termination check left out.
IsTerminalNever(s) == FALSE

\* The termination check with the parity of the modulus inverted.
IsTerminalOddModulus(s) == s.r = 1 /\ s.m % 2 = 1

\* "if curr.r == 1 and curr.m % 2 == 0": entry of the 4-2-1 loop.
IsTerminal(s) == s.r = 1 /\ s.m % 2 = 0

\* The loop body with "continue" taken before a terminal state is counted.
LoopBodyTerminalUncounted(f) ==
    LET p  == popleft(f.queue)
        cu == p[1]
        q1 == p[2]
        f1 == [f EXCEPT !.queue = q1, !.curr = cu,
                        !.dequeued = Append(f.dequeued, cu)]
    IN  IF IsTerminal(cu)
        THEN f1
        ELSE LET nxt == get_next_state(cu) IN
             IF nxt # None
             THEN [f1 EXCEPT !.straight_paths = @ + 1,
                             !.queue = append(q1, nxt),
                             !.enqueued = Append(f.enqueued, nxt),
                             !.nodes = @ + 1]
             ELSE LET ch == SplitChildren(cu) IN
                  [f1 EXCEPT !.splits = @ + 1,
                             !.queue = append(append(q1, ch[1]), ch[2]),
                             !.enqueued = f.enqueued \o ch,
                             !.nodes = @ + 1]

\* One iteration of the while loop (lines 61-81) on the locals f.
LoopBody(f) ==
    LET p  == popleft(f.queue)
        cu == p[1]
        q1 == p[2]
        f1 == [f EXCEPT !.queue = q1, !.curr = cu,
                        !.dequeued = Append(f.dequeued, cu)]
    IN  IF IsTerminal(cu)
        THEN [f1 EXCEPT !.nodes = @ + 1]
        ELSE LET nxt == get_next_state(cu) IN
             IF nxt # None
             THEN [f1 EXCEPT !.straight_paths = @ + 1,
                             !.queue = append(q1, nxt),
                             !.enqueued = Append(f.enqueued, nxt),
                             !.nodes = @ + 1]
             ELSE LET ch == SplitChildren(cu) IN
                  [f1 EXCEPT !.splits = @ + 1,
                             !.queue = append(append(q1, ch[1]), ch[2]),
                             !.enqueued = f.enqueued \o ch,
                             !.nodes = @ + 1]

RECURSIVE Gcd(_, _)
Gcd(a, b) == IF b = 0 THEN a ELSE Gcd(b, a % b)

\* Python's true division of two non-negative ints, b > 0: the quotient as
\* a fraction in lowest terms.
TrueDiv(a, b) == LET g == Gcd(a, b) IN <<a \div g, b \div g>>

\* The float literal 50.0.
Sentinel == <<SentinelValue, 1>>

\* Lines 83-84 with the quotient inverted.
RatioInverted(sp, s) == IF s = 0 THEN Sentinel ELSE TrueDiv(s, sp)

\* Lines 83-84.
Ratio(sp, s) == IF s = 0 THEN Sentinel ELSE TrueDiv(sp, s)

\* Entering get_stability_ratio(modulus, residue, depth_limit): lines 55-58.
Call(c, modulus, residue, depth_limit) ==
    /\ pc[c] = "idle"
    /\ LET f == InitialLocals(modulus, residue) IN
        /\ queue' = [queue EXCEPT ![c] = f.queue]
        /\ curr' = [curr EXCEPT ![c] = f.curr]
        /\ straight_paths' = [straight_paths EXCEPT ![c] = f.straight_paths]
        /\ splits' = [splits EXCEPT ![c] = f.splits]
        /\ nodes' = [nodes EXCEPT ![c] = f.nodes]
        /\ enqueued' = [enqueued EXCEPT ![c] = f.enqueued]
        /\ dequeued' = [dequeued EXCEPT ![c] = f.dequeued]
    /\ args' = [args EXCEPT ![c] = [modulus |-> modulus, residue |-> residue,
                                    depth_limit |-> depth_limit]]
    /\ pc' = [pc EXCEPT ![c] = "loop"]
    /\ UNCHANGED <<ret, imgVars, ruleVars>>

\* The loop test stopping one node short of the budget.
LoopTestEarly(c) == queue[c] # <<>> /\ nodes[c] + 1 < args[c].depth_limit

\* The loop test with "<=" for "<".
LoopTestOffByOne(c) == queue[c] # <<>> /\ nodes[c] <= args[c].depth_limit

\* "while queue and nodes < depth_limit"
LoopTest(c) == queue[c] # <<>> /\ nodes[c] < args[c].depth_limit

\* One iteration with the node counter kept in one place for all workers.
StepSharedCounter(c) ==
    /\ pc[c] = "loop"
    /\ LoopTest(c)
    /\ LET f == LoopBody(Locals(c)) IN
        /\ queue' = [queue EXCEPT ![c] = f.queue]
        /\ curr' = [curr EXCEPT ![c] = f.curr]
        /\ straight_paths' = [straight_paths EXCEPT ![c] = f.straight_paths]
        /\ splits' = [splits EXCEPT ![c] = f.splits]
        /\ nodes' = [d \in Calls |-> IF pc[d] = "loop" THEN f.nodes ELSE nodes[d]]
        /\ enqueued' = [enqueued EXCEPT ![c] = f.enqueued]
        /\ dequeued' = [dequeued EXCEPT ![c] = f.dequeued]
    /\ UNCHANGED <<pc, args, ret, imgVars, ruleVars>>

\* One iteration of the loop of worker c.
Step(c) ==
    /\ pc[c] = "loop"
    /\ LoopTest(c)
    /\ LET f == LoopBody(Locals(c)) IN
        /\ queue' = [queue EXCEPT ![c] = f.queue]
        /\ curr' = [curr EXCEPT ![c] = f.curr]
        /\ straight_paths' = [straight_paths EXCEPT ![c] = f.straight_paths]
        /\ splits' = [splits EXCEPT ![c] = f.splits]
        /\ nodes' = [nodes EXCEPT ![c] = f.nodes]
        /\ enqueued' = [enqueued EXCEPT ![c] = f.enqueued]
        /\ dequeued' = [dequeued EXCEPT ![c] = f.dequeued]
    /\ UNCHANGED <<pc, args, ret, imgVars, ruleVars>>

\* The loop test fails and the ratio is returned (lines 83-84).
Return(c) ==
    /\ pc[c] = "loop"
    /\ ~LoopTest(c)
    /\ ret' = [ret EXCEPT ![c] = Ratio(straight_paths[c], splits[c])]
    /\ pc' = [pc EXCEPT ![c] = "done"]
    /\ UNCHANGED <<args, queue, curr, straight_paths, splits, nodes,
                   enqueued, dequeued, imgVars, ruleVars>>

(* ------------------------ generate_tree_image -------------------------- *)
\* The root label of generate_tree_image.
ImgRootId == <<"R">>

\* G.add_node(n, color=...): a node is <<id, color>>.
add_node(g, n, color) ==
    [g EXCEPT !.nodes = {x \in @ : x[1] # n} \cup {<<n, color>>}]

\* G.add_edge(u, v, color=..., weight=...): the end points become nodes (with
\* no attribute) unless they are nodes already, and the edge u -> v is set.
add_edge(g, u, v, color, weight) ==
    LET ids == {x[1] : x \in g.nodes}
        new == {<<n, "">> : n \in {u, v} \ ids}
    IN  [nodes |-> g.nodes \cup new,
         edges |-> {e \in g.edges : ~(e.u = u /\ e.v = v)}
                     \cup {[u |-> u, v |-> v, color |-> color,
                             weight |-> weight]}]

\* The two targets t1, t2 of a split in generate_tree_image.
ImgSplitChildren(c) ==
    LET nm == c.m * 2 IN
    << MaporaStack(nm, c.r, Append(c.id, "A"), c.layer + 1),
       MaporaStack(nm, c.r + c.m, Append(c.id, "B"), c.layer + 1) >>

\* The worklist loop body with ">" for ">=" in the layer test.
ImgLoopBodyCeilingOffByOne(f) ==
    LET p  == popleft(f.queue)
        cu == p[1]
        q1 == p[2]
        f1 == [f EXCEPT !.queue = q1, !.curr = cu]
    IN  IF cu.layer > LayerCeiling
        THEN f1
        ELSE LET nxt == get_next_state(cu) IN
             IF nxt # None
             THEN [f1 EXCEPT !.G = add_edge(@, cu.id, nxt.id, "#2ecc71", 2),
                             !.queue = append(q1, nxt),
                             !.enqueued = Append(f.enqueued, nxt)]
             ELSE LET ch == ImgSplitChildren(cu)
                      g1 == add_edge(f.G, cu.id, ch[1].id, "#e74c3c", 1)
                      g2 == add_edge(g1, cu.id, ch[2].id, "#e74c3c", 1)
                  IN  [f1 EXCEPT !.G = g2,
                                 !.queue = append(append(q1, ch[1]), ch[2]),
                                 !.enqueued = f.enqueued \o ch]

\* One iteration of the worklist loop (lines 158-172) on the locals f.
ImgLoopBody(f) ==
    LET p  == popleft(f.queue)
        cu == p[1]
        q1 == p[2]
        f1 == [f EXCEPT !.queue = q1, !.curr = cu]
    IN  IF cu.layer >= LayerCeiling
        THEN f1
        ELSE LET nxt == get_next_state(cu) IN
             IF nxt # None
             THEN [f1 EXCEPT !.G = add_edge(@, cu.id, nxt.id, "#2ecc71", 2),
                             !.queue = append(q1, nxt),
                             !.enqueued = Append(f.enqueued, nxt)]
             ELSE LET ch == ImgSplitChildren(cu)
                      g1 == add_edge(f.G, cu.id, ch[1].id, "#e74c3c", 1)
                      g2 == add_edge(g1, cu.id, ch[2].id, "#e74c3c", 1)
                  IN  [f1 EXCEPT !.G = g2,
                                 !.queue = append(append(q1, ch[1]), ch[2]),
                                 !.enqueued = f.enqueued \o ch]

\* Entering generate_tree_image(residue, mod, title, filename): lines 152-154.
\* The program is sequential: no get_stability_ratio is running.
ImgCall(residue, mod) ==
    /\ img_pc = "idle"
    /\ \A c \in Calls : pc[c] = "idle"
    /\ img_queue' = <<MaporaStack(mod, residue, ImgRootId, 0)>>
    /\ img_enqueued' = <<MaporaStack(mod, residue, ImgRootId, 0)>>
    /\ G' = add_node([nodes |-> {}, edges |-> {}], ImgRootId, "black")
    /\ img_pc' = "loop"
    /\ UNCHANGED <<img_curr, travVars, ruleVars>>

\* One iteration of "while queue".
ImgStep ==
    /\ img_pc = "loop"
    /\ img_queue # <<>>
    /\ LET f == ImgLoopBody([queue |-> img_queue, curr |-> img_curr, G |-> G,
                             enqueued |-> img_enqueued])
       IN  /\ img_queue' = f.queue
           /\ img_enqueued' = f.enqueued
           /\ img_curr' = f.curr
           /\ G' = f.G
    /\ UNCHANGED <<img_pc, travVars, ruleVars>>

\* The worklist is empty: the loop is left and the graph is drawn.
ImgReturn ==
    /\ img_pc = "loop"
    /\ img_queue = <<>>
    /\ img_pc' = "done"
    /\ UNCHANGED <<img_queue, img_curr, G, img_enqueued, travVars, ruleVars>>

(* --------------------------- specifications ---------------------------- *)
\* The roots and budgets a single invocation is started with: the small
\* ones, and the control scenario of the repository.
Roots ==
    ((1..MaxMod) \X (0..MaxRes) \X (0..MaxBudget))
        \cup {<<ControlModulus, ControlResidue, ControlBudget>>}

\* The <<residue, mod>> pairs generate_tree_image is started with: the small
\* ones, and the two figures of the repository.
ImgRoots ==
    ((0..ImgMaxRes) \X (1..ImgMaxMod))
        \cup {<<ControlResidue, ControlModulus>>,
              <<FibonacciResidue, ControlModulus>>}

ConcRoots == (1..ConcMaxMod) \X (0..ConcMaxRes) \X (0..ConcMaxBudget)

RuleArgs ==
    { MaporaStack(m, r, <<"R">>, l) :
        m \in 1..RuleMaxMod, r \in 0..RuleMaxRes, l \in 0..RuleMaxLayer }

TravInit ==
    /\ pc = [c \in Calls |-> "idle"]
    /\ args = [c \in Calls |-> Unbound]
    /\ queue = [c \in Calls |-> <<>>]
    /\ curr = [c \in Calls |-> Unbound]
    /\ straight_paths = [c \in Calls |-> 0]
    /\ splits = [c \in Calls |-> 0]
    /\ nodes = [c \in Calls |-> 0]
    /\ ret = [c \in Calls |-> Unbound]
    /\ enqueued = [c \in Calls |-> <<>>]
    /\ dequeued = [c \in Calls |-> <<>>]
    /\ img_pc = "idle"
    /\ img_queue = <<>>
    /\ img_curr = Unbound
    /\ G = [nodes |-> {}, edges |-> {}]
    /\ img_enqueued = <<>>

Init ==
    /\ TravInit
    /\ rule_self = Unbound
    /\ rule_ret = Unbound

\* The sequential program runs one invocation of either traversal.
Next ==
    \/ \E a \in Roots : img_pc = "idle" /\ Call(Main, a[1], a[2], a[3])
    \/ Step(Main)
    \/ Return(Main)
    \/ \E a \in ImgRoots : ImgCall(a[1], a[2])
    \/ ImgStep
    \/ ImgReturn

Spec == Init /\ [][Next]_vars

\* The interpreter runs a started invocation on: each iteration and the
\* return are taken when enabled.
FairSpec == Spec /\ WF_vars(Step(Main)) /\ WF_vars(Return(Main))

\* Every worker runs one invocation, their steps interleaved.
ConcNext ==
    \E c \in Calls :
        \/ \E a \in ConcRoots : Call(c, a[1], a[2], a[3])
        \/ Step(c)
        \/ Return(c)

ConcSpec == Init /\ [][ConcNext]_vars

\* get_next_state applied once to an object of the stated input domain.
RuleInit ==
    /\ TravInit
    /\ rule_self \in RuleArgs
    /\ rule_ret = Unbound

ApplyRule ==
    /\ rule_ret = Unbound
    /\ rule_ret' = get_next_state(rule_self)
    /\ UNCHANGED <<rule_self, travVars, imgVars>>

RuleNext == ApplyRule

RuleSpec == RuleInit /\ [][RuleNext]_vars

(* ------------------------------ claims --------------------------------- *)
\* A worker that has entered get_stability_ratio.
Started(c) == pc[c] \in {"loop", "done"}

\* C1: in every state of the loop of get_stability_ratio, and at its return,
\* the count of processed nodes does not exceed the node budget.
BudgetRespect ==
    \A c \in Calls : Started(c) => nodes[c] <= args[c].depth_limit

\* C1: a truncated run: the budget is used up while states are pending.
BudgetRespectWitness ==
    /\ pc[Main] = "done"
    /\ args[Main].depth_limit > 0
    /\ nodes[Main] = args[Main].depth_limit
    /\ queue[Main] # <<>>

\* C2: get_stability_ratio returns exactly 50.0 when the loop ends with
\* splits = 0, and otherwise the quotient straight_paths / splits of the
\* counters as they stand when the loop ends.
SentinelOrQuotient ==
    \A c \in Calls :
        pc[c] = "done" =>
            IF splits[c] = 0
            THEN ret[c] = <<50, 1>>
            ELSE /\ ret[c][2] > 0
                 /\ ret[c][1] * splits[c] = straight_paths[c] * ret[c][2]

\* C2: a purely merging chain cut by a small budget returns the sentinel.
SentinelOrQuotientWitness ==
    /\ pc[Main] = "done"
    /\ splits[Main] = 0
    /\ straight_paths[Main] > 0
    /\ queue[Main] # <<>>
    /\ ret[Main] = <<50, 1>>

\* get_next_state has been applied to rule_self.
Applied == rule_ret # Unbound

\* C3: for modulus >= 1 and residue >= 0, get_next_state returns None or a
\* MaporaStack, and None exactly when the residue is even and the modulus odd.
AmbiguousIff ==
    Applied =>
        /\ rule_ret = None \/ DOMAIN rule_ret = {"m", "r", "id", "layer"}
        /\ rule_ret = None <=> (rule_self.r % 2 = 0 /\ rule_self.m % 2 = 1)

\* C3: an odd modulus with an even residue was found ambiguous.
AmbiguousIffWitness ==
    /\ Applied
    /\ rule_self.m = 3
    /\ rule_self.r = 4
    /\ rule_ret = None

\* C4: a deterministic successor is (modulus/2, residue/2) labelled
\* label + "D" when residue and modulus are even, and (3*modulus,
\* 3*residue + 1) labelled label + "M" when the residue is odd; the state
\* (1, 1) yields (3, 4).
DeterministicSuccessor ==
    (Applied /\ rule_ret # None) =>
        /\ (rule_self.r % 2 = 0 /\ rule_self.m % 2 = 0) =>
              /\ 2 * rule_ret.m = rule_self.m
              /\ 2 * rule_ret.r = rule_self.r
              /\ rule_ret.id = rule_self.id \o <<"D">>
        /\ rule_self.r % 2 = 1 =>
              /\ rule_ret.m = 3 * rule_self.m
              /\ rule_ret.r = 3 * rule_self.r + 1
              /\ rule_ret.id = rule_self.id \o <<"M">>
        /\ (rule_self.m = 1 /\ rule_self.r = 1) =>
              (rule_ret.m = 3 /\ rule_ret.r = 4)

\* C4: the state (1, 1) was given its successor (3, 4).
DeterministicSuccessorWitness ==
    /\ Applied
    /\ rule_self.m = 1
    /\ rule_self.r = 1
    /\ rule_ret # None
    /\ rule_ret.m = 3
    /\ rule_ret.r = 4

\* Worker c completes one iteration of its loop in this step.
Iterates(c) == pc[c] = "loop" /\ nodes'[c] = nodes[c] + 1

\* A state whose parity the class descriptor does not determine.
AmbiguousState(s) == s.r % 2 = 0 /\ s.m % 2 = 1

\* The last symbol of a label.
LastSymbol(s) == s.id[Len(s.id)]

\* The deque qn is the deque q with its head p removed and exactly the two
\* children of p appended: (2m, r) labelled label + "A", then (2m, r + m)
\* labelled label + "B".
TwoChildrenAppended(q, qn) ==
    LET p == Head(q)
        n == Len(qn)
    IN  /\ n = Len(q) + 1
        /\ SubSeq(qn, 1, n - 2) = Tail(q)
        /\ LET child_A == qn[n - 1]
               child_B == qn[n]
           IN  /\ child_A.m = 2 * p.m
               /\ child_A.r = p.r
               /\ child_A.id = p.id \o <<"A">>
               /\ child_B.m = 2 * p.m
               /\ child_B.r = p.r + p.m
               /\ child_B.id = p.id \o <<"B">>
               /\ child_B.r - child_A.r = p.m
               /\ child_A.m = child_B.m

\* generate_tree_image completes one iteration of its loop in this step.
ImgIterates == img_pc = "loop" /\ img_queue' # img_queue

\* C5: an iteration that processes an ambiguous state (m, r) appends exactly
\* two children behind the pending states, first (2m, r) labelled
\* label + "A", then (2m, r + m) labelled label + "B"; get_stability_ratio
\* counts one split for it, and generate_tree_image does the same below its
\* layer ceiling.
SplitEnqueuesTwo ==
    [][/\ \A c \in Calls :
            (Iterates(c) /\ AmbiguousState(Head(queue[c]))) =>
                /\ splits'[c] = splits[c] + 1
                /\ TwoChildrenAppended(queue[c], queue'[c])
       /\ (/\ ImgIterates
           /\ AmbiguousState(Head(img_queue))
           /\ Head(img_queue).layer < 14) =>
                TwoChildrenAppended(img_queue, img_queue')
    ]_vars

\* C5: a split has just appended its two children behind a pending state.
SplitEnqueuesTwoWitness ==
    LET q == queue[Main] n == Len(queue[Main]) IN
    /\ pc[Main] = "loop"
    /\ n >= 3
    /\ AmbiguousState(curr[Main])
    /\ q[n - 1].id = curr[Main].id \o <<"A">>
    /\ q[n].id = curr[Main].id \o <<"B">>
    /\ q[n].r - q[n - 1].r = curr[Main].m

\* C6: the root has depth 0, and every state an iteration creates (by a
\* halving merge, a 3n+1 merge, or as either child of a split) has depth
\* exactly one greater than the state popped by that iteration.
DepthPlusOne ==
    [][\A c \in Calls :
         /\ (pc[c] = "idle" /\ pc'[c] = "loop") =>
               \A i \in 1..Len(enqueued'[c]) : enqueued'[c][i].layer = 0
         /\ Iterates(c) =>
               \A i \in (Len(enqueued[c]) + 1)..Len(enqueued'[c]) :
                   enqueued'[c][i].layer = Head(queue[c]).layer + 1
    ]_vars

\* C6: states of all four kinds have been created, some below depth 1.
DepthPlusOneWitness ==
    LET e == enqueued[Main] IN
    /\ \A k \in {"D", "M", "A", "B"} :
           \E i \in 2..Len(e) : LastSymbol(e[i]) = k
    /\ \E i \in 2..Len(e) : e[i].layer >= 3

\* C7: under the fairness of FairSpec every started invocation returns, and
\* when it has returned the frontier is empty or nodes equals the budget.
Termination ==
    /\ \A c \in Calls : [](pc[c] = "loop" => <>(pc[c] = "done"))
    /\ [](\A c \in Calls :
             pc[c] = "done" =>
                 (queue[c] = <<>> \/ nodes[c] = args[c].depth_limit))

\* C7: an invocation has returned a ratio with states still pending.
TerminationWitness ==
    /\ pc[Main] = "done"
    /\ queue[Main] # <<>>
    /\ nodes[Main] = args[Main].depth_limit
    /\ splits[Main] > 0
    /\ ret[Main] # Unbound

\* C8: the objects popped so far, followed by the objects pending, are the
\* objects appended so far in the order of their appending.
FifoOrder ==
    \A c \in Calls : enqueued[c] = dequeued[c] \o queue[c]

\* C8: the two children of a split have been popped, child A first, while
\* later states are pending.
FifoOrderWitness ==
    LET d == dequeued[Main] IN
    /\ queue[Main] # <<>>
    /\ \E i \in 1..(Len(d) - 1) :
          /\ LastSymbol(d[i]) = "A"
          /\ LastSymbol(d[i + 1]) = "B"
          /\ d[i].layer >= 2

\* C9: get_stability_ratio(32, 16, 400) never splits, creates states by
\* halving only, and returns 50.0 with the frontier empty, the budget not
\* used up, and the last state popped terminal (residue 1, even modulus).
ControlScenario ==
    \A c \in Calls :
        (Started(c) /\ args[c] = [modulus |-> 32, residue |-> 16,
                                  depth_limit |-> 400]) =>
            /\ splits[c] = 0
            /\ \A i \in 2..Len(enqueued[c]) : LastSymbol(enqueued[c][i]) = "D"
            /\ pc[c] = "done" =>
                  /\ ret[c] = <<50, 1>>
                  /\ queue[c] = <<>>
                  /\ nodes[c] < 400
                  /\ curr[c].r = 1
                  /\ curr[c].m % 2 = 0

\* C9: the control scenario has returned the sentinel.
ControlScenarioWitness ==
    /\ pc[Main] = "done"
    /\ args[Main] = [modulus |-> 32, residue |-> 16, depth_limit |-> 400]
    /\ straight_paths[Main] = 4
    /\ nodes[Main] = 5
    /\ ret[Main] = <<50, 1>>

\* The locals of an invocation run alone, after k iterations.
RECURSIVE RunAlone(_, _)
RunAlone(a, k) ==
    IF k = 0 THEN InitialLocals(a.modulus, a.residue)
    ELSE LoopBody(RunAlone(a, k - 1))

\* The locals of an invocation run alone, when its loop ends.
RECURSIVE RunToEnd(_, _)
RunToEnd(f, depth_limit) ==
    IF f.queue # <<>> /\ f.nodes < depth_limit
    THEN RunToEnd(LoopBody(f), depth_limit)
    ELSE f

\* The value an invocation run alone returns.
ResultAlone(a) ==
    LET f == RunToEnd(InitialLocals(a.modulus, a.residue), a.depth_limit) IN
    Ratio(f.straight_paths, f.splits)

\* C10: with the steps of the invocations interleaved, the frontier and the
\* counters of each are at every point those of the same invocation run
\* alone for as many iterations, and each returns what it returns alone.
Isolation ==
    \A c \in Calls :
        Started(c) =>
            /\ Locals(c) = RunAlone(args[c], nodes[c])
            /\ pc[c] = "done" => ret[c] = ResultAlone(args[c])

\* C10: two invocations of different roots have both returned, one with
\* splits and the other after several iterations, with different results.
IsolationWitness ==
    /\ pc["w1"] = "done"
    /\ pc["w2"] = "done"
    /\ args["w1"] # args["w2"]
    /\ splits["w1"] > 0
    /\ nodes["w2"] >= 2
    /\ ret["w1"] # ret["w2"]

(* ----------------- callers outside the stated domain ------------------- *)
\* How far below 1 the modulus of a root is drawn (specification OpenSpec).
MinusMod == 2

\* Roots whose modulus may be 0 or negative: nothing in MaporaStack.__init__
\* or in get_stability_ratio looks at the sign of modulus.
OpenRoots ==
    ((0 - MinusMod)..ConcMaxMod) \X (0..ConcMaxRes) \X (0..ConcMaxBudget)

\* One invocation, by a caller that may pass any integer modulus.
OpenNext ==
    \/ \E a \in OpenRoots : Call(Main, a[1], a[2], a[3])
    \/ Step(Main)
    \/ Return(Main)

OpenSpec == Init /\ [][OpenNext]_vars

\* C11: a state whose modulus is <= 0 is rejected when it is constructed, so
\* no such state is ever the root of a traversal or pending in its frontier.
InvalidStateRejected ==
    \A c \in Calls :
        Started(c) =>
            \A i \in 1..Len(enqueued[c]) : enqueued[c][i].m >= 1

\* Worker c pops a state in this step.
Pops(c) == pc[c] = "loop" /\ dequeued'[c] # dequeued[c]

\* A state with residue 1 and an even modulus.
TerminalState(s) == s.r = 1 /\ s.m % 2 = 0

\* C12: when the traversal pops a state with residue 1 and an even modulus
\* (the root included), nodes grows by one, nothing is appended, and
\* straight_paths and splits stay as they are: the 3n+1 merge is not applied.
TerminalPrecedence ==
    [][\A c \in Calls :
         (Pops(c) /\ TerminalState(Head(queue[c]))) =>
            /\ nodes'[c] = nodes[c] + 1
            /\ queue'[c] = Tail(queue[c])
            /\ enqueued'[c] = enqueued[c]
            /\ straight_paths'[c] = straight_paths[c]
            /\ splits'[c] = splits[c]
    ]_vars

\* C12: a terminal root has been popped and counted, and nothing else done.
TerminalPrecedenceWitness ==
    /\ pc[Main] = "done"
    /\ args[Main].residue = 1
    /\ args[Main].modulus % 2 = 0
    /\ args[Main].depth_limit >= 2
    /\ dequeued[Main] = enqueued[Main]
    /\ nodes[Main] = 1
    /\ straight_paths[Main] = 0
    /\ splits[Main] = 0

\* The number of terminal states worker c has popped.
TerminalsPopped(c) ==
    Cardinality({i \in 1..Len(dequeued[c]) : TerminalState(dequeued[c][i])})

\* C13: every iteration adds exactly one to nodes and does exactly one of:
\* straight_paths + 1 (a merge), splits + 1 (a split), neither (a terminal
\* state); no counter ever decreases; and at every loop boundary nodes is
\* straight_paths + splits + the number of terminal states popped.
CounterAccounting ==
    /\ [][\A c \in Calls :
            /\ Pops(c) =>
                  /\ nodes'[c] = nodes[c] + 1
                  /\ \/ /\ ~TerminalState(Head(queue[c]))
                        /\ straight_paths'[c] = straight_paths[c] + 1
                        /\ splits'[c] = splits[c]
                     \/ /\ ~TerminalState(Head(queue[c]))
                        /\ straight_paths'[c] = straight_paths[c]
                        /\ splits'[c] = splits[c] + 1
                     \/ /\ TerminalState(Head(queue[c]))
                        /\ straight_paths'[c] = straight_paths[c]
                        /\ splits'[c] = splits[c]
            /\ Started(c) =>
                  /\ nodes'[c] >= nodes[c]
                  /\ straight_paths'[c] >= straight_paths[c]
                  /\ splits'[c] >= splits[c]
       ]_vars
    /\ [](\A c \in Calls :
             /\ nodes[c] >= 0 /\ straight_paths[c] >= 0 /\ splits[c] >= 0
             /\ nodes[c] = straight_paths[c] + splits[c] + TerminalsPopped(c))

\* C13: merges, splits and a terminal state have all been counted.
CounterAccountingWitness ==
    /\ Started(Main)
    /\ straight_paths[Main] >= 2
    /\ splits[Main] >= 1
    /\ TerminalsPopped(Main) >= 1
    /\ nodes[Main] = straight_paths[Main] + splits[Main] + TerminalsPopped(Main)

\* C14: the depths of the pending states are non-decreasing from front to
\* back and differ by at most 1; the depths of the states popped one after
\* another never decrease; and no popped state is deeper than a pending one.
BreadthFirst ==
    \A c \in Calls :
        LET q == queue[c]
            d == dequeued[c]
        IN  /\ \A i, j \in 1..Len(q) : i <= j => q[i].layer <= q[j].layer
            /\ \A i, j \in 1..Len(q) : q[j].layer - q[i].layer \in {-1, 0, 1}
            /\ \A i, j \in 1..Len(d) : i <= j => d[i].layer <= d[j].layer
            /\ \A i \in 1..Len(d) : \A j \in 1..Len(q) :
                   d[i].layer <= q[j].layer

\* C14: states of two depths are pending after states of several depths
\* were popped.
BreadthFirstWitness ==
    LET q == queue[Main]
        d == dequeued[Main]
    IN  /\ Len(q) >= 3
        /\ q[Len(q)].layer = q[1].layer + 1
        /\ Len(d) >= 4
        /\ d[Len(d)].layer >= 2

\* Every state created so far, by either traversal.
Created == UNION {{enqueued[c][i] : i \in 1..Len(enqueued[c])} : c \in Calls}
               \cup {img_enqueued[i] : i \in 1..Len(img_enqueued)}

\* C15: every state of a traversal from a root with modulus >= 1 and
\* residue >= 0, however it was derived, has modulus >= 1 and residue >= 0.
WellFormedStates ==
    \A s \in Created : s.m \in Nat /\ s.m >= 1 /\ s.r \in Nat

\* C15: states of all four derivations have been created from a root of
\* modulus 1.
WellFormedStatesWitness ==
    /\ Started(Main)
    /\ args[Main].modulus = 1
    /\ \A k \in {"D", "M", "A", "B"} :
           \E i \in 2..Len(enqueued[Main]) : LastSymbol(enqueued[Main][i]) = k

(* ------------------- traversals from labelled roots -------------------- *)
\* Labels a root may be constructed with: MaporaStack takes the symbol_id
\* as a parameter ("ROOT" at line 55, "R" at line 152).
RootLabels == {RootId, ImgRootId, <<"X", "Y">>}

\* The locals of get_stability_ratio after lines 55-58, the root constructed
\* with the label symbol_id.
InitialLocalsLabelled(modulus, residue, symbol_id) ==
    LET root == MaporaStack(modulus, residue, symbol_id, 0) IN
    [queue |-> <<root>>, curr |-> Unbound,
     straight_paths |-> 0, splits |-> 0, nodes |-> 0,
     enqueued |-> <<root>>, dequeued |-> <<>>]

\* Entering the traversal of lines 55-84 from a root labelled symbol_id.
CallLabelled(c, modulus, residue, depth_limit, symbol_id) ==
    /\ pc[c] = "idle"
    /\ LET f == InitialLocalsLabelled(modulus, residue, symbol_id) IN
        /\ queue' = [queue EXCEPT ![c] = f.queue]
        /\ curr' = [curr EXCEPT ![c] = f.curr]
        /\ straight_paths' = [straight_paths EXCEPT ![c] = f.straight_paths]
        /\ splits' = [splits EXCEPT ![c] = f.splits]
        /\ nodes' = [nodes EXCEPT ![c] = f.nodes]
        /\ enqueued' = [enqueued EXCEPT ![c] = f.enqueued]
        /\ dequeued' = [dequeued EXCEPT ![c] = f.dequeued]
    /\ args' = [args EXCEPT ![c] = [modulus |-> modulus, residue |-> residue,
                                    depth_limit |-> depth_limit]]
    /\ pc' = [pc EXCEPT ![c] = "loop"]
    /\ UNCHANGED <<ret, imgVars, ruleVars>>

\* Two traversals of the same modulus, residue and budget, each from a root
\* of any label, their iterations interleaved.
LabelNext ==
    \E c \in Calls :
        \/ \E a \in ConcRoots, l \in RootLabels :
              /\ \A d \in Calls \ {c} :
                     pc[d] = "idle" \/ args[d] = [modulus |-> a[1],
                                                  residue |-> a[2],
                                                  depth_limit |-> a[3]]
              /\ CallLabelled(c, a[1], a[2], a[3], l)
        \/ Step(c)
        \/ Return(c)

LabelSpec == Init /\ [][LabelNext]_vars

\* A state without its label.
Unlabelled(s) ==
    IF s = Unbound THEN Unbound ELSE [m |-> s.m, r |-> s.r, layer |-> s.layer]

\* A sequence of states without their labels.
UnlabelledSeq(q) == [i \in 1..Len(q) |-> Unlabelled(q[i])]

\* The locals of worker c without the labels.
UnlabelledLocals(c) ==
    [queue |-> UnlabelledSeq(queue[c]), curr |-> Unlabelled(curr[c]),
     straight_paths |-> straight_paths[c], splits |-> splits[c],
     nodes |-> nodes[c], enqueued |-> UnlabelledSeq(enqueued[c]),
     dequeued |-> UnlabelledSeq(dequeued[c])]

\* C16: two traversals of the same modulus, residue and budget from roots of
\* any two labels have, after the same number of iterations, the same
\* pending and processed (modulus, residue, depth) states and the same
\* counters, take the same loop decision, and return the same ratio.
LabelIndependence ==
    \A c, d \in Calls :
        (Started(c) /\ Started(d) /\ nodes[c] = nodes[d]) =>
            /\ UnlabelledLocals(c) = UnlabelledLocals(d)
            /\ LoopTest(c) <=> LoopTest(d)
            /\ (pc[c] = "done" /\ pc[d] = "done") => ret[c] = ret[d]

\* C16: two traversals from roots of different labels have both returned
\* after merges and splits.
LabelIndependenceWitness ==
    /\ pc["w1"] = "done"
    /\ pc["w2"] = "done"
    /\ enqueued["w1"][1].id # enqueued["w2"][1].id
    /\ Len(enqueued["w1"][1].id) # Len(enqueued["w2"][1].id)
    /\ straight_paths["w1"] >= 1
    /\ splits["w1"] >= 1
    /\ ret["w1"] = ret["w2"]

\* generate_tree_image runs on once started: each iteration and the leaving
\* of the loop are taken when enabled.
ImgFairSpec == Spec /\ WF_vars(ImgStep) /\ WF_vars(ImgReturn)

\* C17: generate_tree_image never expands a popped state of depth >= 14 (it
\* is dropped, nothing is appended and the graph is left alone), every state
\* it creates has depth <= 14, and under the fairness of ImgFairSpec its loop
\* ends, with the queue empty.
DepthBounded ==
    /\ [][(ImgIterates /\ Head(img_queue).layer >= 14) =>
             /\ img_queue' = Tail(img_queue)
             /\ img_enqueued' = img_enqueued
             /\ G' = G
       ]_vars
    /\ [](\A i \in 1..Len(img_enqueued) : img_enqueued[i].layer <= 14)
    /\ [](img_pc = "done" => img_queue = <<>>)
    /\ [](img_pc = "loop" => <>(img_pc = "done"))

\* C17: the loop has ended after states of depth 14 were created and dropped.
DepthBoundedWitness ==
    /\ img_pc = "done"
    /\ img_queue = <<>>
    /\ img_curr.layer = 14
    /\ \E i \in 1..Len(img_enqueued) : img_enqueued[i].layer = 14
    /\ \E i \in 1..Len(img_enqueued) :
          img_enqueued[i].r = 1 /\ img_enqueued[i].m % 2 = 0
                                /\ img_enqueued[i].layer < 14

\* C18: no child of a split is ambiguous: child A has an even modulus and an
\* even residue, so what is derived from it is its halving; child B has an
\* odd residue, so what is derived from it (if it is not terminal) is its
\* 3n+1 merge; hence no label has two split symbols in a row.
NoConsecutiveSplits ==
    \A s \in Created :
        /\ LastSymbol(s) = "A" =>
              s.m % 2 = 0 /\ s.r % 2 = 0 /\ ~AmbiguousState(s)
        /\ LastSymbol(s) = "B" => s.r % 2 = 1 /\ ~AmbiguousState(s)
        /\ \A i \in 1..(Len(s.id) - 1) :
              /\ s.id[i] = "A" => s.id[i + 1] = "D"
              /\ s.id[i] = "B" => s.id[i + 1] = "M"

\* C18: both children of a split have been expanded, A by a halving and B
\* by a 3n+1 merge, and a later state has split again.
NoConsecutiveSplitsWitness ==
    /\ \E s \in Created :
          \E i \in 1..(Len(s.id) - 2) :
              s.id[i] = "A" /\ s.id[i + 1] = "D" /\ s.id[Len(s.id)] = "A"
    /\ \E s \in Created :
          \E i \in 1..(Len(s.id) - 1) : s.id[i] = "B" /\ s.id[i + 1] = "M"

\* The states that q holds satisfy: whenever the first (the root) has its
\* residue below k times its modulus, so has every one.
BoundPreserved(q, k) ==
    (q # <<>> /\ q[1].r < k * q[1].m) =>
        \A i \in 1..Len(q) : q[i].r < k * q[i].m

\* C19: if the root has residue < modulus then so has every state created in
\* the traversal, and likewise for the weaker bound residue < 2 * modulus.
ReducednessPreserved ==
    /\ \A c \in Calls :
          BoundPreserved(enqueued[c], 1) /\ BoundPreserved(enqueued[c], 2)
    /\ BoundPreserved(img_enqueued, 1)
    /\ BoundPreserved(img_enqueued, 2)

\* C19: a root with modulus <= residue < 2 * modulus has had states of all
\* four derivations created from it.
ReducednessPreservedWitness ==
    LET e == enqueued[Main] IN
    /\ Started(Main)
    /\ e[1].m >= 2
    /\ e[1].r >= e[1].m
    /\ e[1].r < 2 * e[1].m
    /\ \A k \in {"D", "M", "A", "B"} :
           \E i \in 2..Len(e) : LastSymbol(e[i]) = k

\* In the sequence q of created states, the root first: every label is the
\* root's label followed by as many symbols of D, M, A, B as the state is
\* deep, and no two of the states have the same label.
LabelsIdentify(q) ==
    /\ \A i \in 1..Len(q) :
          LET root_id == q[1].id
              id == q[i].id
          IN  /\ Len(id) = Len(root_id) + q[i].layer
              /\ SubSeq(id, 1, Len(root_id)) = root_id
              /\ \A k \in (Len(root_id) + 1)..Len(id) :
                     id[k] \in {"D", "M", "A", "B"}
    /\ Cardinality({q[i].id : i \in 1..Len(q)}) = Len(q)

\* C20: in a traversal of get_stability_ratio or of generate_tree_image each
\* created state's label is the root label followed by exactly depth symbols
\* of D, M, A, B, and no two created states carry the same label (so the
\* graph, keyed by label, has one node for each).
LabelsUnique ==
    /\ \A c \in Calls : LabelsIdentify(enqueued[c])
    /\ LabelsIdentify(img_enqueued)
    /\ Cardinality(G.nodes) = Len(img_enqueued)

\* C20: generate_tree_image has ended with states down to its deepest layer
\* and both children of some split among those created.
LabelsUniqueWitness ==
    /\ img_pc = "done"
    /\ Len(img_enqueued) >= 20
    /\ \E i \in 1..Len(img_enqueued) : img_enqueued[i].layer = 14
    /\ \E i \in 1..(Len(img_enqueued) - 1) :
          /\ LastSymbol(img_enqueued[i]) = "A"
          /\ LastSymbol(img_enqueued[i + 1]) = "B"

====
